---- MODULE Spec2Model ----
(***************************************************************************)
(* A model of mm.c, the boundary-tag allocator with an intrusive doubly    *)
(* linked free list (Malloc-Lab).  Memory is an array of 4-byte words      *)
(* addressed by byte address; every macro and function of mm.c is an       *)
(* operator over a machine state h = [m, brk, head, fault, nomem].         *)
(* The build is the lab's 32-bit one: long and long* are 4 bytes wide,     *)
(* the allocation flag is the sign bit of the header word.                 *)
(***************************************************************************)
EXTENDS Integers, Sequences, FiniteSets, TLC

VARIABLES
  mem,              \* the arena: word address -> 32-bit signed word
  mem_max_addr,     \* memlib's limit: first address past the arena
  mem_brk,          \* memlib's break: first address past the managed region
  free_nodes_head,  \* mm.c line 69
  fault,            \* "none", "segv" (store through a bad address), "hang"
  live,             \* the caller's live allocations: records [p, n, k]
  freed,            \* pointers the caller has freed and still holds
  last,             \* the operation that completed last
  rt,               \* a malloc(n) = p directly followed by free(p), or NoRT
  plain,            \* only mm_malloc and mm_free of live pointers since mm_init
  checked,          \* what the mm_check that ran last did, or NoCheck
  nops              \* number of calls and stores made so far

vars == <<mem, mem_max_addr, mem_brk, free_nodes_head, fault, live, freed, last, rt, plain,
          checked, nops>>

----------------------------------------------------------------------------
(* Bounds of the model *)

\* size of the arena memlib hands out (MAX_HEAP), in double words of 8 bytes
MaxHeap == 13
\* requests are 0 and 4, 20, ... 16*MaxReq - 12 bytes
MaxReq == 2
\* the same two bounds for a caller that only calls mm_malloc and mm_free
MaxHeapPlain == 17
MaxReqPlain == 3
\* number of calls along one run
MaxOps == 6

----------------------------------------------------------------------------
(* Machine constants *)

NULL == 0
\* sizeof(long) and sizeof(long *)
WSIZE == 4
PSIZE == 4
\* mem_heap_lo(): the arena starts on a double-word boundary, and not at 0
HeapLo == 8
\* the value (void *)-1 that mem_sbrk returns on failure
SBRK_FAIL == -1
\* the sign bit 1<<31 of a 32-bit word, as a signed value
SIGNBIT == -2147483647 - 1

ALIGNMENT == 8
ALIGN(size) == ((size + (ALIGNMENT - 1)) \div 8) * 8
BLOCK_MIN == WSIZE * 2 + PSIZE * 2
INNER_MIN == 2 * PSIZE
MAX(a, b) == IF a > b THEN a ELSE b
ALIGN_FLOOR(size, minimum) == MAX(ALIGN(size), minimum) + 2 * WSIZE
OFFSET == ALIGN(WSIZE) - WSIZE

\* the words of the arena
Addrs == {a \in HeapLo .. (mem_max_addr - 1) : a % WSIZE = 0}
InArena(a) == a >= HeapLo /\ a < mem_max_addr /\ a % WSIZE = 0
NumWords == (mem_max_addr - HeapLo) \div WSIZE

----------------------------------------------------------------------------
(* Loads and stores *)

\* A load outside the arena yields 0 (mm_free loads the word past the break
\* before it compares the address with UPPER).
Rd(h, a) == IF InArena(a) THEN h.m[a] ELSE 0

\* A store outside the arena is a segmentation fault; nothing runs after it.
Wr(h, a, v) ==
  IF h.fault # "none" THEN h
  ELSE IF InArena(a) THEN [h EXCEPT !.m[a] = v]
  ELSE [h EXCEPT !.fault = "segv"]

\* w | (1<<31) and w & ~(1<<31) on a signed 32-bit word
SetFlag(w) == IF w >= 0 THEN w + SIGNBIT ELSE w
ClearFlag(w) == IF w < 0 THEN w - SIGNBIT ELSE w

\* unsigned comparison of two 32-bit patterns held as signed values
UGe(a, b) ==
  IF (a < 0) = (b < 0) THEN a >= b ELSE a < 0
ULt(a, b) == ~UGe(a, b)

----------------------------------------------------------------------------
(* The block macros, mm.c lines 46-67 *)

BLOCKSIZE(h, block) == ClearFlag(Rd(h, block))
INNERSIZE(h, block) == BLOCKSIZE(h, block) - 2 * WSIZE
INNER(block) == block + WSIZE
OUTER(block) == block - WSIZE
IS_ALLOC(h, block) == Rd(h, block) < 0
FOOT(h, block) == block + WSIZE * (BLOCKSIZE(h, block) \div WSIZE) - WSIZE
PREV(h, block) == block - WSIZE * (BLOCKSIZE(h, block - WSIZE) \div WSIZE)
NEXT(h, block) == block + WSIZE * (BLOCKSIZE(h, block) \div WSIZE)
LOWER == HeapLo + OFFSET
mem_heap_hi(h) == h.brk - 1
mem_heapsize(h) == h.brk - HeapLo
UPPER(h) == PREV(h, mem_heap_hi(h) + 1)

\* With(v, K) is K(v): the statements after an assignment see its value
With(v, K(_)) == K(v)

ALLOC(h, block) ==
  With(Wr(h, block, SetFlag(Rd(h, block))), LAMBDA h1 :
    Wr(h1, FOOT(h1, block), Rd(h1, block)))

FREE(h, block) ==
  With(Wr(h, block, ClearFlag(Rd(h, block))), LAMBDA h1 :
    Wr(h1, FOOT(h1, block), Rd(h1, block)))

FORMAT(h, block, size) ==
  With(Wr(h, block, size), LAMBDA h1 :
    Wr(h1, FOOT(h1, block), size))

MERGE(h, b1, b2) ==
  With(Wr(h, b1, BLOCKSIZE(h, b1) + BLOCKSIZE(h, b2)), LAMBDA h1 :
    Wr(h1, FOOT(h1, b2), Rd(h1, b1)))

LL_PREV(block) == block + WSIZE
LL_NEXT(block) == block + WSIZE + WSIZE * (PSIZE \div WSIZE)
PREV_FREE(h, block) == Rd(h, LL_PREV(block))
NEXT_FREE(h, block) == Rd(h, LL_NEXT(block))

----------------------------------------------------------------------------
(* memlib, the heap-growth provider *)

\* mem_sbrk: the old break, or (void *)-1 with the break unchanged when the
\* arena is exhausted
mem_sbrk(h, incr) ==
  IF incr < 0 \/ h.brk + incr > mem_max_addr
  THEN [h |-> [h EXCEPT !.nomem = TRUE], p |-> SBRK_FAIL]
  ELSE [h |-> [h EXCEPT !.brk = h.brk + incr], p |-> h.brk]

\* memcpy(dst, src, n), a word at a time from the low end; a null operand
\* of a non-empty copy is a segmentation fault
RECURSIVE CopyWords(_, _, _, _, _)
CopyWords(h, dst, src, i, nwords) ==
  IF i >= nwords THEN h
  ELSE CopyWords(Wr(h, dst + WSIZE * i, Rd(h, src + WSIZE * i)),
                 dst, src, i + 1, nwords)

memcpy(h, dst, src, n) ==
  IF n = 0 \/ h.fault # "none" THEN h
  ELSE IF dst = NULL \/ src = NULL THEN [h EXCEPT !.fault = "segv"]
  ELSE CopyWords(h, dst, src, 0, (n + WSIZE - 1) \div WSIZE)

\* the number of bytes of src that the copy reads
memcpy_reads(h, dst, src, n) ==
  IF n = 0 \/ h.fault # "none" \/ dst = NULL \/ src = NULL THEN 0
  ELSE WSIZE * ((n + WSIZE - 1) \div WSIZE)

----------------------------------------------------------------------------
(* extend, split, LL_delete: mm.c lines 74-121 *)

extend(h, size) ==
  IF mem_heapsize(h) # 0 /\ ~IS_ALLOC(h, UPPER(h))
  THEN With(UPPER(h), LAMBDA old :
       With(ALIGN(2 * WSIZE + size - BLOCKSIZE(h, old)), LAMBDA newsize :
       With(mem_sbrk(h, newsize), LAMBDA s :
       With(FORMAT(s.h, s.p, newsize), LAMBDA h1 :
         [h |-> MERGE(h1, old, s.p), p |-> old]))))
  ELSE With(ALIGN_FLOOR(size, BLOCK_MIN), LAMBDA bsize :
       With(mem_sbrk(h, bsize), LAMBDA s :
         [h |-> FORMAT(s.h, s.p, bsize), p |-> s.p]))

split(h, block, size) ==
  With(BLOCKSIZE(h, block), LAMBDA total :
  With(size, LAMBDA b1_size :
  With(FORMAT(h, block, b1_size), LAMBDA h1 :
  With(NEXT(h1, block), LAMBDA next :
    FORMAT(h1, next, total - b1_size)))))

LL_delete(h, block) ==
  With(IF PREV_FREE(h, block) # NULL
       THEN Wr(h, LL_NEXT(PREV_FREE(h, block)), NEXT_FREE(h, block))
       ELSE h, LAMBDA h1 :
  With(IF NEXT_FREE(h1, block) # NULL
       THEN Wr(h1, LL_PREV(NEXT_FREE(h1, block)), PREV_FREE(h1, block))
       ELSE h1, LAMBDA h2 :
    IF h2.head = block
    THEN [h2 EXCEPT !.head = NEXT_FREE(h2, block)]
    ELSE h2))

\* insertion at the head of the free list (mm.c lines 182-192 and 243-251)
PushFront(h, block) ==
  With(IF h.head # NULL
       THEN With(Wr(h, LL_PREV(h.head), block), LAMBDA h1 :
            With(Wr(h1, LL_NEXT(block), h1.head), LAMBDA h2 :
              Wr(h2, LL_PREV(block), NULL)))
       ELSE With(Wr(h, LL_PREV(block), NULL), LAMBDA h1 :
              Wr(h1, LL_NEXT(block), NULL)), LAMBDA h3 :
    [h3 EXCEPT !.head = block])

----------------------------------------------------------------------------
(* mm_init, mm_malloc, mm_free, mm_realloc: mm.c lines 126-263 *)

\* mem_init hands out a new arena with the break at its start
mem_init == [m |-> [a \in Addrs |-> 0], brk |-> HeapLo, head |-> NULL,
             fault |-> "none", nomem |-> FALSE]

mm_init ==
  With(mem_sbrk(mem_init, OFFSET), LAMBDA s :
    [s.h EXCEPT !.head = NULL])

\* the search loop of mm_malloc, lines 154-161.  The loop does not write, so
\* a walk longer than the number of words of the arena has met a word twice
\* and never ends.
RECURSIVE BestFit(_, _, _, _, _)
BestFit(h, size, block, min, fuel) ==
  IF ~(block # NULL /\ block >= 0 /\ block < mem_heap_hi(h))
  THEN [min |-> min, hang |-> FALSE]
  ELSE IF fuel = 0 THEN [min |-> min, hang |-> TRUE]
  ELSE BestFit(h, size, NEXT_FREE(h, block),
               IF /\ UGe(INNERSIZE(h, block), size)
                  /\ (min = NULL
                      \/ ULt(INNERSIZE(h, block), INNERSIZE(h, min)))
               THEN block ELSE min,
               fuel - 1)

find_fit(h, size) == BestFit(h, size, h.head, NULL, NumWords + 1)

\* lines 162-167: no free block fits
malloc_grow(h, size) ==
  With(extend(h, size), LAMBDA e :
  With(e.p, LAMBDA newblock :
  With(ALLOC(e.h, newblock), LAMBDA h1 :
    [h |-> LL_delete(h1, newblock), ret |-> INNER(newblock)])))

\* lines 168-195: serve the request from the free block min
malloc_place(h, size, min) ==
  With(LL_delete(h, min), LAMBDA h0 :
  With(BLOCK_MIN, LAMBDA minimum :
  With(ALIGN_FLOOR(size, minimum) + 2 * WSIZE, LAMBDA splitsize :
  With(BLOCKSIZE(h0, min) - splitsize, LAMBDA leftover :
    IF leftover < minimum
    THEN [h |-> ALLOC(h0, min), ret |-> INNER(min)]
    ELSE With(split(h0, min, splitsize), LAMBDA h1 :
         With(ALLOC(h1, min), LAMBDA h2 :
         With(NEXT(h2, min), LAMBDA newblock :
           [h |-> PushFront(h2, newblock), ret |-> INNER(min)])))))))

\* mm_malloc without the test of lines 143-145
mm_malloc_nozero(h, size) ==
  IF h.head = NULL
  THEN With(ALIGN_FLOOR(size, BLOCK_MIN), LAMBDA bsize :
       With(mem_sbrk(h, bsize), LAMBDA s :
       With(s.p, LAMBDA newblock :
       With(FORMAT(s.h, newblock, bsize), LAMBDA h1 :
         [h |-> ALLOC(h1, newblock), ret |-> INNER(newblock)]))))
  ELSE With(find_fit(h, size), LAMBDA f :
         IF f.hang THEN [h |-> [h EXCEPT !.fault = "hang"], ret |-> NULL]
         ELSE IF f.min = NULL THEN malloc_grow(h, size)
         ELSE malloc_place(h, size, f.min))

mm_malloc(h, size) ==
  IF size = 0 THEN [h |-> h, ret |-> NULL]
  ELSE IF h.head = NULL
  THEN With(ALIGN_FLOOR(size, BLOCK_MIN), LAMBDA bsize :
       With(mem_sbrk(h, bsize), LAMBDA s :
       With(s.p, LAMBDA newblock :
       With(FORMAT(s.h, newblock, bsize), LAMBDA h1 :
         [h |-> ALLOC(h1, newblock), ret |-> INNER(newblock)]))))
  ELSE With(find_fit(h, size), LAMBDA f :
         IF f.hang THEN [h |-> [h EXCEPT !.fault = "hang"], ret |-> NULL]
         ELSE IF f.min = NULL THEN malloc_grow(h, size)
         ELSE malloc_place(h, size, f.min))

\* lines 228-233: the block has absorbed its successor; is the block in
\* front of it free as well?
free_merge_prev_too(h, block) ==
  IF ~IS_ALLOC(h, PREV(h, block)) /\ PREV(h, block) >= LOWER
     /\ block # LOWER
  THEN With(PREV(h, block), LAMBDA new :
       With(LL_delete(h, block), LAMBDA h1 :
         MERGE(h1, new, block)))
  ELSE h

\* lines 213-235: the next block is free
free_merge_next(h, block) ==
  With(NEXT(h, block), LAMBDA old :
  With(MERGE(h, block, old), LAMBDA h1 :
  With(Wr(h1, LL_PREV(block), PREV_FREE(h1, old)), LAMBDA h2 :
  With(Wr(h2, LL_NEXT(block), NEXT_FREE(h2, old)), LAMBDA h3 :
  With(IF PREV_FREE(h3, old) # NULL
       THEN Wr(h3, LL_NEXT(PREV_FREE(h3, old)), block)
       ELSE h3, LAMBDA h4 :
  With(IF NEXT_FREE(h4, old) # NULL
       THEN Wr(h4, LL_PREV(NEXT_FREE(h4, old)), block)
       ELSE h4, LAMBDA h5 :
  With(IF h5.head = old THEN [h5 EXCEPT !.head = block] ELSE h5, LAMBDA h6 :
    free_merge_prev_too(h6, block))))))))

\* lines 212-251: the block is marked allocated and is given back
free_block(h, block) ==
  With(FREE(h, block), LAMBDA h1 :
    IF ~IS_ALLOC(h1, NEXT(h1, block)) /\ NEXT(h1, block) <= UPPER(h1)
    THEN free_merge_next(h1, block)
    ELSE IF ~IS_ALLOC(h1, PREV(h1, block)) /\ PREV(h1, block) >= LOWER
            /\ block # LOWER
    THEN MERGE(h1, PREV(h1, block), block)
    ELSE PushFront(h1, block))

\* mm_free without the test of lines 207-210
mm_free_unguarded(h, ptr) ==
  IF ptr = NULL THEN h
  ELSE free_block(h, OUTER(ptr))

mm_free(h, ptr) ==
  IF ptr = NULL THEN h
  ELSE IF ~IS_ALLOC(h, OUTER(ptr)) THEN h
  ELSE free_block(h, OUTER(ptr))

mm_realloc(h, ptr, size) ==
  With(mm_malloc(h, size), LAMBDA r :
  With(memcpy(r.h, r.ret, ptr, size), LAMBDA h1 :
    [h |-> mm_free(h1, ptr), ret |-> r.ret,
     nread |-> memcpy_reads(r.h, r.ret, ptr, size)]))

----------------------------------------------------------------------------
(* The walk of mm_check over the region, mm.c lines 271-284 *)

\* the walk stops at a block of size 0 (lines 279-282)
RECURSIVE Walk(_, _, _)
Walk(h, block, fuel) ==
  IF fuel = 0 \/ ~(block < mem_heap_hi(h)) THEN <<>>
  ELSE IF BLOCKSIZE(h, block) = 0 THEN <<block>>
  ELSE <<block>> \o Walk(h, NEXT(h, block), fuel - 1)

BlockSeq(h) == Walk(h, LOWER, NumWords)
BlockSet(h) == LET s == BlockSeq(h) IN {s[i] : i \in 1 .. Len(s)}

\* mm_check, lines 270-286: the blocks it prints, in the order it prints
\* them, and how it ends: "done" (the loop ends and the head is printed),
\* "exit" (exit(1) at line 281) or "hang".  A block is at least one word
\* long, so a loop that has run more often than the arena has words has
\* stopped advancing and never ends.
RECURSIVE CheckLoop(_, _, _, _)
CheckLoop(h, block, seen, fuel) ==
  IF ~(block < mem_heap_hi(h)) THEN [visited |-> seen, end |-> "done"]
  ELSE IF fuel = 0 THEN [visited |-> seen, end |-> "hang"]
  ELSE IF BLOCKSIZE(h, block) = 0
  THEN [visited |-> Append(seen, block), end |-> "exit"]
  ELSE CheckLoop(h, NEXT(h, block), Append(seen, block), fuel - 1)

mm_check(h) == CheckLoop(h, LOWER, <<>>, NumWords)

----------------------------------------------------------------------------
(* The state machine: the caller's calls *)

Heap == [m |-> mem, brk |-> mem_brk, head |-> free_nodes_head,
         fault |-> fault, nomem |-> FALSE]
\* the same view of the state an action leaves behind
HeapAfter == [m |-> mem', brk |-> mem_brk', head |-> free_nodes_head',
              fault |-> fault', nomem |-> FALSE]

ReqSizes == {0} \cup {16 * k - 12 : k \in 1 .. MaxReq}
ReqSizesPlain == {0} \cup {16 * k - 12 : k \in 1 .. MaxReqPlain}
\* a value that is no address and no block size
DataWords == {2}
NoRT == [p |-> NULL, n |-> 0]
NoCheck == [visited |-> <<>>, end |-> "none"]
LivePtrs == {r.p : r \in live}

\* hdr is the word in front of ptr when the call was made, nread the number
\* of bytes memcpy was asked to read from ptr
Op(op, size, ptr, ret, nomem, hdr, nread) ==
  [op |-> op, size |-> size, ptr |-> ptr, ret |-> ret, nomem |-> nomem,
   hdr |-> hdr, nread |-> nread]

\* A faulted process is dead: its image is kept as it was before the call.
Commit(h) ==
  /\ mem_max_addr' = mem_max_addr
  /\ IF h.fault = "none"
     THEN /\ mem' = h.m
          /\ mem_brk' = h.brk
          /\ free_nodes_head' = h.head
          /\ fault' = "none"
     ELSE /\ UNCHANGED <<mem, mem_brk, free_nodes_head>>
          /\ fault' = h.fault

\* mm_malloc reads the first two payload words of a block it has just
\* obtained from mem_sbrk only when extend appends a block (lines 89-92,
\* then LL_delete at line 166).
ReadsFresh(h, size) ==
  /\ size # 0
  /\ h.head # NULL
  /\ ~(mem_heapsize(h) # 0 /\ ~IS_ALLOC(h, UPPER(h)))
  /\ LET f == find_fit(h, size) IN ~f.hang /\ f.min = NULL

\* What the two words may hold: memlib does not clear the arena, so they
\* hold what an earlier use of it left there.  Null, or an address at which
\* a block started then: that of a block of the region, that of the new
\* block, or one that is inside a block now (the double word in front of
\* the new block stands for these).
FreshWords(h, size) ==
  IF ReadsFresh(h, size)
  THEN {NULL, h.brk, h.brk - ALIGNMENT} \cup BlockSet(h)
  ELSE {NULL}

Plant(h, jp, jn) ==
  IF jp = NULL /\ jn = NULL THEN h
  ELSE [h EXCEPT !.m = [a \in DOMAIN h.m |->
                          IF a = LL_PREV(h.brk) THEN jp
                          ELSE IF a = LL_NEXT(h.brk) THEN jn
                          ELSE h.m[a]]]

Grant(ret, size) ==
  IF ret = NULL THEN live
  ELSE live \cup {[p |-> ret, n |-> size,
                   k |-> 1 + Cardinality({r \in live : r.p = ret})]}

Release(ptr) ==
  live \ {r \in live : r.p = ptr /\ r.k = Cardinality({q \in live : q.p = ptr})}

MallocOf(sizes) ==
  /\ fault = "none"
  /\ nops < MaxOps
  /\ nops' = nops + 1
  /\ \E size \in sizes :
       \E fw \in {FreshWords(Heap, size)} :
       \E jp \in fw, jn \in fw :
       \E r \in {mm_malloc(Plant(Heap, jp, jn), size)} :
         LET ok == r.h.fault = "none"
         IN  /\ Commit(r.h)
             /\ live' = IF ok THEN Grant(r.ret, size) ELSE live
             /\ freed' = IF ok THEN freed \ {r.ret} ELSE freed
             /\ last' = Op("malloc", size, NULL, IF ok THEN r.ret ELSE NULL,
                           r.h.nomem, 0, 0)
             /\ rt' = NoRT
             /\ checked' = NoCheck
             /\ UNCHANGED plain

Malloc == MallocOf(ReqSizes)

FreeArgs ==
  {NULL} \cup LivePtrs \cup {q \in freed : ~IS_ALLOC(Heap, OUTER(q))}

Free ==
  /\ fault = "none"
  /\ nops < MaxOps
  /\ nops' = nops + 1
  /\ \E ptr \in FreeArgs :
       \E h \in {mm_free(Heap, ptr)} :
           /\ Commit(h)
           /\ live' = IF ptr \in LivePtrs THEN Release(ptr) ELSE live
           /\ freed' = IF ptr \in LivePtrs /\ Release(ptr) \cap {r \in live : r.p = ptr} = {}
                       THEN freed \cup {ptr} ELSE freed
           /\ last' = Op("free", 0, ptr, NULL, FALSE,
                         IF ptr = NULL THEN 0 ELSE Rd(Heap, OUTER(ptr)), 0)
           /\ rt' = IF last.op = "malloc" /\ ptr # NULL /\ last.ret = ptr
                    THEN [p |-> ptr, n |-> last.size] ELSE NoRT
           /\ plain' = (plain /\ ptr \in LivePtrs)
           /\ checked' = NoCheck

Realloc ==
  /\ fault = "none"
  /\ nops < MaxOps
  /\ nops' = nops + 1
  /\ \E ptr \in {NULL} \cup LivePtrs, size \in ReqSizes :
       \E fw \in {FreshWords(Heap, size)} :
       \E jp \in fw, jn \in fw :
       \E r \in {mm_realloc(Plant(Heap, jp, jn), ptr, size)} :
       \E rel \in {IF ptr \in LivePtrs THEN Release(ptr) ELSE live} :
         LET ok == r.h.fault = "none"
         IN  /\ Commit(r.h)
             /\ live' = IF ~ok THEN live
                        ELSE IF r.ret = NULL THEN rel
                        ELSE rel \cup {[p |-> r.ret, n |-> size,
                                        k |-> 1 + Cardinality({q \in rel : q.p = r.ret})]}
             /\ freed' = IF ~ok THEN freed
                         ELSE ((IF ptr = NULL THEN freed ELSE freed \cup {ptr})
                               \ {r.ret})
             /\ last' = Op("realloc", size, ptr, IF ok THEN r.ret ELSE NULL,
                           r.h.nomem,
                           IF ptr = NULL THEN 0 ELSE Rd(Heap, OUTER(ptr)),
                           r.nread)
             /\ rt' = NoRT
             /\ plain' = FALSE
             /\ checked' = NoCheck

\* the caller writes one word of the allocation it has just been given
Store ==
  /\ fault = "none"
  /\ nops < MaxOps
  /\ nops' = nops + 1
  /\ last.op \in {"malloc", "realloc"}
  /\ last.ret # NULL
  /\ \E i \in {0, (last.size \div WSIZE) - 1}, v \in DataWords :
       /\ mem' = [mem EXCEPT ![last.ret + WSIZE * i] = v]
       /\ last' = [last EXCEPT !.op = "store"]
       /\ UNCHANGED <<mem_max_addr, mem_brk, free_nodes_head, fault, live,
                      freed, rt, plain, checked>>

\* mm_check reads the region and prints; exit(1) ends the process.  It is
\* not one of the calls nops counts: it writes nothing.
Check ==
  /\ fault = "none"
  /\ last.op # "check"
  /\ \E c \in {mm_check(Heap)} :
       /\ checked' = c
       /\ fault' = IF c.end = "done" THEN "none" ELSE c.end
       /\ last' = Op("check", 0, NULL, NULL, FALSE, 0, 0)
       /\ rt' = NoRT
       /\ UNCHANGED <<mem, mem_max_addr, mem_brk, free_nodes_head, live,
                      freed, plain, nops>>

InitArena(maxheap) ==
  /\ mem_max_addr = HeapLo + ALIGNMENT * maxheap
  /\ mem = mm_init.m
  /\ mem_brk = mm_init.brk
  /\ free_nodes_head = mm_init.head
  /\ fault = "none"
  /\ live = {}
  /\ freed = {}
  /\ last = Op("init", 0, NULL, NULL, FALSE, 0, 0)
  /\ rt = NoRT
  /\ plain = TRUE
  /\ checked = NoCheck
  /\ nops = 0

Init == InitArena(MaxHeap)

\* mm_init again: a new arena, every pointer of the old one is gone
Reinit ==
  /\ fault = "none"
  /\ nops < MaxOps
  /\ nops' = nops + 1
  /\ last.op # "init"
  /\ mem' = mm_init.m
  /\ mem_max_addr' = mem_max_addr
  /\ mem_brk' = mm_init.brk
  /\ free_nodes_head' = mm_init.head
  /\ fault' = "none"
  /\ live' = {}
  /\ freed' = {}
  /\ last' = Op("init", 0, NULL, NULL, FALSE, 0, 0)
  /\ rt' = NoRT
  /\ plain' = TRUE
  /\ checked' = NoCheck

Next == Malloc \/ Free \/ Realloc \/ Store \/ Check \/ Reinit

Spec == Init /\ [][Next]_vars

\* a caller that only calls mm_malloc and mm_free, in a larger arena
MallocPlain == MallocOf(ReqSizesPlain)
InitPlain == InitArena(MaxHeapPlain)
NextPlain == MallocPlain \/ Free
SpecPlain == InitPlain /\ [][NextPlain]_vars

----------------------------------------------------------------------------
(* Derived views of the heap *)

Min(a, b) == IF a < b THEN a ELSE b

\* the nodes met from free_nodes_head along the next links; a walk that
\* uses all its fuel is on a cycle
RECURSIVE ListWalk(_, _, _)
ListWalk(h, block, fuel) ==
  IF block = NULL \/ fuel = 0 THEN <<>>
  ELSE <<block>> \o ListWalk(h, NEXT_FREE(h, block), fuel - 1)

ListFuel == NumWords + 1
FreeList(h) == ListWalk(h, h.head, ListFuel)
FreeListSet(h) == LET s == FreeList(h) IN {s[i] : i \in 1 .. Len(s)}
FreeBlocks(h) == {b \in BlockSet(h) : ~IS_ALLOC(h, b)}

\* no two blocks that follow each other in address order are both free
NoAdjacentFree(h) ==
  LET s == BlockSeq(h)
  IN  \A i \in 1 .. Len(s) - 1 : IS_ALLOC(h, s[i]) \/ IS_ALLOC(h, s[i + 1])

ListMatchesFree(h) ==
  LET s == FreeList(h)
  IN  /\ Len(s) < ListFuel
      /\ \A i, j \in 1 .. Len(s) : i # j => s[i] # s[j]
      /\ FreeListSet(h) = FreeBlocks(h)

ListWellFormed(h) ==
  LET s == FreeList(h)
  IN  /\ Len(s) < ListFuel
      /\ \A i, j \in 1 .. Len(s) : i # j => s[i] # s[j]
      /\ Len(s) > 0 => PREV_FREE(h, s[1]) = NULL
      /\ \A i \in 1 .. Len(s) - 1 : PREV_FREE(h, s[i + 1]) = s[i]
      /\ \A i \in 2 .. Len(s) : NEXT_FREE(h, PREV_FREE(h, s[i])) = s[i]

Completed(ops) == fault = "none" /\ last.op \in ops

----------------------------------------------------------------------------
(* Claims *)

Overlap(p1, n1, p2, n2) == p1 < p2 + n2 /\ p2 < p1 + n1

\* C1: in a run of mm_init, mm_malloc and mm_free of live pointers, a
\* non-null pointer returned by mm_malloc(n) is a multiple of 8 bytes from
\* the region start, its n bytes lie inside the payload of one block marked
\* allocated, and the payloads of two distinct live allocations are disjoint.
C1_MallocSafe ==
  (plain /\ Completed({"malloc"}) /\ last.ret # NULL) =>
     /\ (last.ret - HeapLo) % ALIGNMENT = 0
     /\ OUTER(last.ret) \in BlockSet(Heap)
     /\ IS_ALLOC(Heap, OUTER(last.ret))
     /\ last.size <= INNERSIZE(Heap, OUTER(last.ret))
     /\ \A r1, r2 \in live :
          r1 # r2 => ~Overlap(r1.p, r1.n, r2.p, r2.n)

\* C2: after every completed mm_free no two address-adjacent blocks of the
\* region are both marked free.
C2_NoAdjacentFreeAfterFree ==
  Completed({"free"}) => NoAdjacentFree(Heap)

\* C3: after every completed mm_malloc, mm_free or mm_realloc the blocks
\* reachable from free_nodes_head through the next links are exactly the
\* blocks of the region marked free, each met once.
C3_ListIsFreeSet ==
  Completed({"malloc", "free", "realloc"}) => ListMatchesFree(Heap)

\* C4: after every completed mm_malloc, mm_free or mm_realloc the free list
\* is a well-formed doubly linked list: the head has a null previous link,
\* the list is acyclic and ends in a null next link, and next and previous
\* links mirror each other.
C4_ListWellFormed ==
  Completed({"malloc", "free", "realloc"}) => ListWellFormed(Heap)

\* C5: from a state reached by mm_malloc and mm_free calls, p = mm_malloc(n),
\* mm_free(p), q = mm_malloc(n) with n > 0 and no call in between gives
\* q = p and does not grow the region.
C5_RoundTrip ==
  [][(plain /\ rt.p # NULL /\ rt.n > 0 /\ last'.op = "malloc" /\ last'.size = rt.n)
       => (fault' = "none" /\ last'.ret = rt.p /\ mem_brk' = mem_brk)]_vars

\* C6: when mem_sbrk fails during mm_malloc, mm_malloc returns null, leaves
\* every tag, link, free_nodes_head and the region size as they were, and
\* stores nothing through the value mem_sbrk returned.
C6_SbrkFailureReturnsNull ==
  [][(last'.op = "malloc" /\ last'.nomem)
       => (/\ fault' = "none"
           /\ last'.ret = NULL
           /\ UNCHANGED <<mem, mem_brk, free_nodes_head>>)]_vars

\* C7: mm_realloc(p, n) reads at most min(n, payload size of p's block)
\* bytes of the old block.
C7_ReallocReadsWithinOldBlock ==
  (last.op = "realloc" /\ last.ptr # NULL) =>
     last.nread <= Min(last.size, ClearFlag(last.hdr) - 2 * WSIZE)

\* C8: after q = mm_realloc(p, n) with p live and n > 0, the first
\* min(n, old payload size) bytes at q are those that were at p before the
\* call, q's block is marked allocated and p's old block lies in a free
\* block.
C8_ReallocKeepsData ==
  [][(/\ last'.op = "realloc" /\ fault' = "none"
      /\ last'.ptr \in LivePtrs /\ last'.size > 0)
       => LET p == last'.ptr
              q == last'.ret
              keep == Min(last'.size, INNERSIZE(Heap, OUTER(p)))
          IN  /\ q # NULL
              /\ \A i \in 0 .. (keep \div WSIZE) - 1 :
                   mem'[q + WSIZE * i] = mem[p + WSIZE * i]
              /\ mem'[OUTER(q)] < 0
              /\ \E b \in FreeBlocks(Heap)' :
                   b <= OUTER(p) /\ OUTER(p) < NEXT(Heap, b)']_vars

\* C9: mm_free(NULL), and mm_free(p) with the header in front of p already
\* marked free, change no tag, no link, not free_nodes_head and not the
\* region size.
C9_FreeNullOrFreedIsNoOp ==
  [][(last'.op = "free" /\ (last'.ptr = NULL \/ last'.hdr >= 0))
       => (fault' = "none" /\ UNCHANGED <<mem, mem_brk, free_nodes_head>>)]_vars

C9_Witness ==
  /\ last.op = "free" /\ last.ptr # NULL /\ last.hdr >= 0
  /\ free_nodes_head # NULL /\ live # {}

\* C10: mm_malloc(0) returns null and changes no tag, no link, not
\* free_nodes_head and not the region size.
C10_MallocZeroIsNoOp ==
  [][(last'.op = "malloc" /\ last'.size = 0)
       => (/\ fault' = "none"
           /\ last'.ret = NULL
           /\ UNCHANGED <<mem, mem_brk, free_nodes_head>>)]_vars

C10_Witness ==
  /\ last.op = "malloc" /\ last.size = 0
  /\ free_nodes_head # NULL /\ live # {}

\* C11: mm_check, run on a region reached by mm_malloc and mm_free calls
\* (mm_realloc is such calls and a copy), ends; it visits the blocks from
\* the first one in address order, each once, each the successor of the one
\* before; it changes no tag, no link, not free_nodes_head and not the
\* region size; and it stops with exit at the first block whose decoded
\* size is zero.
C11_CheckWalksOnce ==
  [][(last'.op = "check")
       => LET v == checked'.visited
          IN  /\ UNCHANGED <<mem, mem_brk, free_nodes_head>>
              /\ checked'.end \in {"done", "exit"}
              /\ (Len(v) > 0) = (LOWER < mem_heap_hi(Heap))
              /\ Len(v) > 0 => v[1] = LOWER
              /\ \A i \in 1 .. Len(v) - 1 :
                   v[i] < v[i + 1] /\ v[i + 1] = NEXT(Heap, v[i])
              /\ \A i \in 1 .. Len(v) - 1 : BLOCKSIZE(Heap, v[i]) # 0
              /\ checked'.end = "exit" <=>
                   (Len(v) > 0 /\ BLOCKSIZE(Heap, v[Len(v)]) = 0)
              /\ checked'.end = "done" =>
                   (Len(v) > 0 => ~(NEXT(Heap, v[Len(v)]) < mem_heap_hi(Heap)))]_vars

\* the total size of the block a request of n bytes needs (line 147)
NeededSize(n) == ALIGN_FLOOR(n, BLOCK_MIN)

\* C12: when mm_malloc(n) finds a fit, it splits the chosen block exactly
\* when its total size less the size needed for n is at least the minimum
\* block size; after a split the allocated block has exactly the size
\* needed for n and the whole remainder is one free block at the head of the
\* free list; otherwise the whole block is handed over.
C12_SplitRule ==
  [][(/\ plain /\ last'.op = "malloc" /\ last'.size > 0 /\ fault' = "none"
      /\ free_nodes_head # NULL
      /\ find_fit(Heap, last'.size).min # NULL)
       => LET b == find_fit(Heap, last'.size).min
              total == BLOCKSIZE(Heap, b)
              need == NeededSize(last'.size)
          IN  /\ last'.ret = INNER(b)
              /\ IF total - need >= BLOCK_MIN
                 THEN /\ Rd(HeapAfter, b) = SetFlag(need)
                      /\ Rd(HeapAfter, b + need) = total - need
                      /\ free_nodes_head' = b + need
                 ELSE Rd(HeapAfter, b) = SetFlag(total)]_vars

\* the region is not empty and its last block is free (lines 76-77)
LastBlockFree(h) == mem_heapsize(h) # 0 /\ ~IS_ALLOC(h, UPPER(h))

\* C13: when mm_malloc(n) is served by growing the region, the block it
\* returns is marked allocated, has exactly the size needed for n and ends
\* at the new end of the region; it starts at the old end of the region
\* when the last block was allocated, and at the last block when that was
\* free.
C13_GrowthSizeExact ==
  [][(/\ last'.op = "malloc" /\ last'.size > 0 /\ fault' = "none"
      /\ mem_brk' > mem_brk)
       => LET b == OUTER(last'.ret)
          IN  /\ b = (IF LastBlockFree(Heap) THEN UPPER(Heap) ELSE mem_brk)
              /\ Rd(HeapAfter, b) = SetFlag(NeededSize(last'.size))
              /\ b + NeededSize(last'.size) = mem_brk']_vars

\* C14: when mm_malloc(n) is served by appending a block (no free block
\* fits and the last block of the region is allocated), the new block is not
\* in the free list afterwards, and free_nodes_head and both links of every
\* free block are as before, whatever the new memory held.
C14_AppendLeavesListAlone ==
  [][(/\ last'.op = "malloc" /\ last'.size > 0
      /\ mem_heapsize(Heap) # 0 /\ ~LastBlockFree(Heap)
      /\ ~find_fit(Heap, last'.size).hang
      /\ find_fit(Heap, last'.size).min = NULL
      /\ mem_brk + NeededSize(last'.size) <= mem_max_addr)
       => /\ fault' = "none"
          /\ last'.ret = INNER(mem_brk)
          /\ free_nodes_head' = free_nodes_head
          /\ mem_brk \notin FreeListSet(HeapAfter)
          /\ \A b \in FreeBlocks(Heap) :
               /\ Rd(HeapAfter, LL_PREV(b)) = Rd(Heap, LL_PREV(b))
               /\ Rd(HeapAfter, LL_NEXT(b)) = Rd(Heap, LL_NEXT(b))]_vars

\* C15: mm_malloc(n) with n > 0 returns the free block whose payload is the
\* smallest among the free blocks with payload >= n, the first such block in
\* free-list order among equals, and the region grows only if no free block
\* has payload >= n.
Candidates(h, n) == {b \in FreeBlocks(h) : INNERSIZE(h, b) >= n}
C15_BestFit ==
  [][(last'.op = "malloc" /\ last'.size > 0 /\ fault' = "none")
       => LET cand == Candidates(Heap, last'.size)
              s == FreeList(Heap)
          IN  IF cand = {}
              THEN mem_brk' > mem_brk
              ELSE /\ mem_brk' = mem_brk
                   /\ \E i \in 1 .. Len(s) :
                        /\ s[i] \in cand
                        /\ last'.ret = INNER(s[i])
                        /\ \A j \in 1 .. Len(s) :
                             s[j] \in cand =>
                               \/ INNERSIZE(Heap, s[j]) > INNERSIZE(Heap, s[i])
                               \/ /\ INNERSIZE(Heap, s[j]) = INNERSIZE(Heap, s[i])
                                  /\ j >= i]_vars

\* C16: after mm_init the region size never decreases, mm_free never changes
\* it, and it changes only in a call of mm_malloc (directly or from
\* mm_realloc) with n > 0 for which the free list is empty or no free block
\* has payload >= n.
C16_GrowthOnlyWhenNoFit ==
  [][last'.op # "init" =>
       /\ mem_brk' >= mem_brk
       /\ last'.op = "free" => mem_brk' = mem_brk
       /\ mem_brk' # mem_brk =>
            /\ last'.op \in {"malloc", "realloc"}
            /\ last'.size > 0
            /\ \/ free_nodes_head = NULL
               \/ Candidates(Heap, last'.size) = {}]_vars

\* the neighbours of a block in address order, as the headers and footers
\* of the region show them
NextIsFree(h, b) == NEXT(h, b) < h.brk /\ ~IS_ALLOC(h, NEXT(h, b))
PrevIsFree(h, b) ==
  b # LOWER /\ PREV(h, b) >= LOWER /\ ~IS_ALLOC(h, PREV(h, b))
\* a completed mm_free of an allocated block the caller holds
FreesLive ==
  /\ last'.op = "free" /\ last'.ptr \in LivePtrs /\ fault' = "none"
  /\ IS_ALLOC(Heap, OUTER(last'.ptr))

\* C17: when mm_free(p) frees a block whose next neighbour is free and whose
\* previous neighbour is not, the free list keeps its length and order with
\* the absorbed neighbour's entry replaced by the freed block, the head
\* becomes the freed block if it was the absorbed block, and the merged
\* block's size is the sum of the two sizes.
C17_MergeNextKeepsSlot ==
  [][(/\ FreesLive
      /\ NextIsFree(Heap, OUTER(last'.ptr))
      /\ ~PrevIsFree(Heap, OUTER(last'.ptr)))
       => LET b == OUTER(last'.ptr)
              old == NEXT(Heap, b)
              s == FreeList(Heap)
          IN  /\ FreeList(HeapAfter) =
                   [i \in 1 .. Len(s) |-> IF s[i] = old THEN b ELSE s[i]]
              /\ free_nodes_head' = (IF free_nodes_head = old THEN b
                                     ELSE free_nodes_head)
              /\ Rd(HeapAfter, b) = BLOCKSIZE(Heap, b) + BLOCKSIZE(Heap, old)
              /\ Rd(HeapAfter, FOOT(HeapAfter, b)) = Rd(HeapAfter, b)]_vars

\* C18: when mm_free(p) frees a block that is not the first block, whose
\* previous neighbour is free and whose next neighbour is not, the previous
\* block grows to cover both and the head and the sequence of addresses in
\* the free list stay as they were; when neither neighbour is free the freed
\* block becomes the head and the rest of the list keeps its order.  Lists
\* that are a cycle before the call are left out: they have no sequence.
C18_MergePrevAndPush ==
  [][(FreesLive /\ Len(FreeList(Heap)) < ListFuel) =>
       LET b == OUTER(last'.ptr)
           s == FreeList(Heap)
       IN  /\ (PrevIsFree(Heap, b) /\ ~NextIsFree(Heap, b)) =>
                /\ Rd(HeapAfter, PREV(Heap, b)) =
                     BLOCKSIZE(Heap, PREV(Heap, b)) + BLOCKSIZE(Heap, b)
                /\ Rd(HeapAfter, FOOT(Heap, b)) = Rd(HeapAfter, PREV(Heap, b))
                /\ free_nodes_head' = free_nodes_head
                /\ FreeList(HeapAfter) = s
           /\ (~PrevIsFree(Heap, b) /\ ~NextIsFree(Heap, b)) =>
                /\ free_nodes_head' = b
                /\ FreeList(HeapAfter) = <<b>> \o s]_vars

\* C19: after every completed mm_malloc, mm_free or mm_realloc the footer
\* word of every block of the region equals its header word.
C19_FooterEqualsHeader ==
  Completed({"malloc", "free", "realloc"}) =>
    \A b \in BlockSet(Heap) : Rd(Heap, FOOT(Heap, b)) = Rd(Heap, b)

\* C20: after every completed operation the blocks tile the region: the
\* walk from the first block by the decoded sizes meets only sizes that are
\* multiples of 8 and at least the minimum block size, and ends exactly at
\* the high end of the region.
Tiles(h) ==
  LET s == BlockSeq(h)
  IN  /\ \A i \in 1 .. Len(s) :
           /\ BLOCKSIZE(h, s[i]) % ALIGNMENT = 0
           /\ BLOCKSIZE(h, s[i]) >= BLOCK_MIN
      /\ IF Len(s) = 0 THEN LOWER = h.brk
         ELSE NEXT(h, s[Len(s)]) = h.brk
C20_BlocksTileRegion ==
  Completed({"init", "malloc", "free", "realloc", "check"}) => Tiles(Heap)

====
